---- MODULE Spec2Model ----
(***************************************************************************)
(* MailFacade (tuta-sdk/rust/sdk/src/mail_facade.rs): the mailbox          *)
(* retrieval pipeline and the bulk mutation operations, as a state machine *)
(* over the facade's three collaborators.                                  *)
(*                                                                         *)
(* A call of an async method is a process: it runs from its entry to its   *)
(* first .await in one step, and from each completed .await to the next    *)
(* one (or to its return) in one step.  The collaborators answer in steps  *)
(* of their own.                                                           *)
(***************************************************************************)
EXTENDS Integers, Sequences, FiniteSets, TLC

VARIABLES
    pc,      \* per call: where the call's future is suspended
    op,      \* per call: the method that was invoked
    args,    \* per call: the arguments it was invoked with
    locals,  \* per call: the locals that live across an .await
    result,  \* per call: what the call returned
    posts,   \* every request handed to service_executor.post, in issue order
    loads    \* every request handed to crypto_entity_client, in issue order

vars == <<pc, op, args, locals, result, posts, loads>>

(***************************************************************************)
(* Bounds of the model.                                                    *)
(***************************************************************************)
\* longest mail list a caller passes
MaxLen == 101
\* longest run of adjacent equal keys inside a patterned mail list
MaxBlock == 3
\* largest number of different keys a repeating mail list cycles through
MaxMod == 2

\* the one logical caller of Spec, and the concurrent callers of SpecConc
Callers == {1}
ConcCallers == {1, 2}
CallIds == Callers \cup ConcCallers

(***************************************************************************)
(* Constants of the program.                                               *)
(***************************************************************************)
MAX_MAIL_UPDATE_LIMIT == 50

MailSetKind == {"Custom", "Inbox", "Sent", "Trash", "Archive", "Spam", "Draft"}

\* `folder_type as i64`: the discriminant of the enum
MailSetKindAsI64(kind) ==
    CASE kind = "Custom" -> 0
      [] kind = "Inbox" -> 1
      [] kind = "Sent" -> 2
      [] kind = "Trash" -> 3
      [] kind = "Archive" -> 4
      [] kind = "Spam" -> 5
      [] kind = "Draft" -> 6

ALLOWED_SIMPLE_MOVE_MAIL_TARGETS == <<"Trash">>

\* slice::contains
Contains(slice, x) == \E i \in 1..Len(slice) : slice[i] = x

\* the errors a collaborator can answer with
ApiCallErrors ==
    { [kind |-> "ServerResponseError", error_message |-> "BadRequest"],
      [kind |-> "InternalSdkError", error_message |-> "transport"] }

\* ApiCallError::internal
ApiCallErrorInternal(message) ==
    [kind |-> "InternalSdkError", error_message |-> message]

(***************************************************************************)
(* Values.                                                                 *)
(***************************************************************************)
\* IdTupleGenerated: a list id and an element id; equality is component-wise.
\* The n-th key: keys 2k and 2k+1 share an element id and differ in list id.
IdTupleGenerated(n) == [list_id |-> n % 2, element_id |-> n \div 2]

\* The mail lists callers pass: len keys, in blocks of `block` adjacent equal
\* keys, cycling through `mod` different keys (mod > len: never repeating).
MailList(len, block, mod) ==
    [i \in 1..len |-> IdTupleGenerated(((i - 1) \div block) % mod)]

MailLists ==
    { MailList(len, block, mod) :
        len \in 0..MaxLen, block \in 1..MaxBlock, mod \in (1..MaxMod) \cup {MaxLen + 1} }

\* The mail lists concurrent callers pass: none, short, two chunks, three chunks
ConcMailLists ==
    { MailList(len, block, MaxLen + 1) : len \in {0, 2, MaxLen}, block \in 1..2 }

\* Option
None == [some |-> FALSE]
Some(x) == [some |-> TRUE, value |-> x]

\* GroupType, the classification of a membership's group
GroupType == {"User", "Mail", "Contact"}
\* the group ids memberships refer to
GroupIds == {"g1", "g2"}
\* most memberships a user has
MaxMemberships == 2

\* user.memberships: each membership has a group type and a group id
Memberships ==
    UNION { [1..n -> [group_type : GroupType, group : GroupIds]] : n \in 0..MaxMemberships }

MailBoxIds == {"mb1", "mb2"}
ListIds == {"l1", "l2"}

\* MailBox: `folders` is an optional reference holding the folder list id
MailBoxes ==
    [id : MailBoxIds, folders : {None} \cup {Some([folders |-> l]) : l \in ListIds}]

\* MailboxGroupRoot: refers to its MailBox
MailboxGroupRoots == [mailbox : MailBoxIds]

\* MailFolder: `mails` is the id of the list of its mails
MailFolder(i) == [id |-> i, mails |-> IF i % 2 = 0 THEN "l2" ELSE "l1"]
MailFolders == {MailFolder(i) : i \in 1..2}

\* Mail
Mail(id) == [id |-> id]

\* GeneratedId::min_id and GeneratedId::max_id, the sentinels of the id order
MinId == "------------"
MaxId == "zzzzzzzzzzzz"

\* FolderSystem::new
FolderSystemNew(folders) == [folders |-> folders]

Pending == [tag |-> "Pending"]
Ok(value) == [tag |-> "Ok", value |-> value]
Err(error) == [tag |-> "Err", error |-> error]
Panic == [tag |-> "Panic"]
NoResult == [tag |-> "None"]
Unit == << >>

(***************************************************************************)
(* Vec::dedup: one left-to-right pass that drops an element when it equals *)
(* the last element kept.  The pass is evaluated a stretch of 16 elements  *)
(* at a time, so that the depth of the evaluation stays small for long     *)
(* lists; the elements are visited in the same order either way.           *)
(***************************************************************************)
Min(a, b) == IF a < b THEN a ELSE b

\* the pass over v[i..last], continuing from the elements kept so far
RECURSIVE DedupFrom(_, _, _, _)
DedupFrom(v, i, last, kept) ==
    IF i > last THEN kept
    ELSE IF kept # <<>> /\ v[i] = kept[Len(kept)]
         THEN DedupFrom(v, i + 1, last, kept)
         ELSE DedupFrom(v, i + 1, last, Append(kept, v[i]))

RECURSIVE DedupStretches(_, _, _)
DedupStretches(v, i, kept) ==
    IF i > Len(v) THEN kept
    ELSE LET last == Min(i + 15, Len(v))
             keptNow == DedupFrom(v, i, last, kept)
         IN  DedupStretches(v, last + 1, keptNow)

\* the list is sent as it came
DedupSkipped(v) == v

\* every later occurrence of a key is dropped, adjacent or not
RECURSIVE DedupGlobalFrom(_, _, _, _)
DedupGlobalFrom(v, i, last, kept) ==
    IF i > last THEN kept
    ELSE IF \E j \in 1..Len(kept) : kept[j] = v[i]
         THEN DedupGlobalFrom(v, i + 1, last, kept)
         ELSE DedupGlobalFrom(v, i + 1, last, Append(kept, v[i]))

RECURSIVE DedupGlobalStretches(_, _, _)
DedupGlobalStretches(v, i, kept) ==
    IF i > Len(v) THEN kept
    ELSE LET last == Min(i + 15, Len(v))
             keptNow == DedupGlobalFrom(v, i, last, kept)
         IN  DedupGlobalStretches(v, last + 1, keptNow)

DedupGlobal(v) == DedupGlobalStretches(v, 1, <<>>)

\* the pass starts afresh at every 50th element, as if each chunk were
\* deduplicated on its own
RECURSIVE DedupChunkwiseFrom(_, _)
DedupChunkwiseFrom(v, i) ==
    IF i > Len(v) THEN <<>>
    ELSE DedupFrom(v, i, Min(i + 49, Len(v)), <<>>) \o DedupChunkwiseFrom(v, i + 50)

DedupChunkwise(v) == DedupChunkwiseFrom(v, 1)

Dedup(v) == DedupStretches(v, 1, <<>>)

(***************************************************************************)
(* slice::chunks(chunk_size), one step of the iterator: the next chunk is  *)
(* the first min(len, chunk_size) elements, the iterator keeps the rest.   *)
(***************************************************************************)
\* the element after the chunk is lost
ChunksNextOffByOne(v, chunk_size) ==
    LET n == Min(Len(v), chunk_size)
    IN  [chunk |-> SubSeq(v, 1, n), rest |-> SubSeq(v, n + 2, Len(v))]

\* a chunk holds one element less than the limit
ChunksNextShort(v, chunk_size) ==
    LET n == Min(Len(v), chunk_size - 1)
    IN  [chunk |-> SubSeq(v, 1, n), rest |-> SubSeq(v, n + 1, Len(v))]

ChunksNext(v, chunk_size) ==
    LET n == Min(Len(v), chunk_size)
    IN  [chunk |-> SubSeq(v, 1, n), rest |-> SubSeq(v, n + 1, Len(v))]

(***************************************************************************)
(* Init: the facade after MailFacade::new; no call has been made.          *)
(***************************************************************************)
Init ==
    /\ pc = [c \in CallIds |-> "idle"]
    /\ op = [c \in CallIds |-> "none"]
    /\ args = [c \in CallIds |-> <<>>]
    /\ locals = [c \in CallIds |-> <<>>]
    /\ result = [c \in CallIds |-> NoResult]
    /\ posts = <<>>
    /\ loads = <<>>

\* the call returns (or panics) with r
Return(c, r) ==
    /\ pc' = [pc EXCEPT ![c] = "done"]
    /\ result' = [result EXCEPT ![c] = r]
    /\ locals' = [locals EXCEPT ![c] = <<>>]

\* service_executor.post(body, Default::default()) is called and awaited
Post(c, service, body, rest) ==
    /\ posts' = Append(posts, [call |-> c, service |-> service, body |-> body,
                               resp |-> Pending])
    /\ locals' = [locals EXCEPT ![c] = [rest |-> rest, awaiting |-> Len(posts) + 1]]
    /\ pc' = [pc EXCEPT ![c] = "await_post"]
    /\ UNCHANGED result

(***************************************************************************)
(* set_unread_status_for_mails                                             *)
(***************************************************************************)
\* a call with nothing to send still posts once, with no keys
UnreadLoopPostingEmpty(c, rest, unread) ==
    IF rest = <<>> /\ pc[c] # "idle"
    THEN Return(c, Ok(Unit)) /\ UNCHANGED posts
    ELSE LET nx == ChunksNext(rest, MAX_MAIL_UPDATE_LIMIT)
         IN  Post(c, "UnreadMailStateService",
                  [format |-> 0, unread |-> unread, mails |-> nx.chunk], nx.rest)

\* two chunks are posted at once and only the second one is awaited
UnreadLoopFanOut(c, rest, unread) ==
    LET nx == ChunksNext(rest, MAX_MAIL_UPDATE_LIMIT)
        nx2 == ChunksNext(nx.rest, MAX_MAIL_UPDATE_LIMIT)
        request(chunk) ==
            [call |-> c, service |-> "UnreadMailStateService",
             body |-> [format |-> 0, unread |-> unread, mails |-> chunk], resp |-> Pending]
    IN  IF rest = <<>>
        THEN Return(c, Ok(Unit)) /\ UNCHANGED posts
        ELSE IF nx.rest = <<>>
        THEN Post(c, "UnreadMailStateService",
                  [format |-> 0, unread |-> unread, mails |-> nx.chunk], nx.rest)
        ELSE /\ posts' = posts \o <<request(nx.chunk), request(nx2.chunk)>>
             /\ locals' = [locals EXCEPT ![c] = [rest |-> nx2.rest, awaiting |-> Len(posts) + 2]]
             /\ pc' = [pc EXCEPT ![c] = "await_post"]
             /\ UNCHANGED result

\* `for mail in mails.chunks(MAX_MAIL_UPDATE_LIMIT)`: from the loop head to
\* the next .await, or to `Ok(())` when the iterator is exhausted
UnreadLoop(c, rest, unread) ==
    IF rest = <<>>
    THEN Return(c, Ok(Unit)) /\ UNCHANGED posts
    ELSE LET nx == ChunksNext(rest, MAX_MAIL_UPDATE_LIMIT)
         IN  Post(c, "UnreadMailStateService",
                  [format |-> 0, unread |-> unread, mails |-> nx.chunk], nx.rest)

SetUnreadStatusForMails(c, lists) ==
    /\ pc[c] = "idle"
    /\ \E mails \in lists, unread \in BOOLEAN :
        /\ op' = [op EXCEPT ![c] = "set_unread_status_for_mails"]
        /\ args' = [args EXCEPT ![c] = [mails |-> mails, unread |-> unread]]
        /\ UnreadLoop(c, Dedup(mails), unread)
        /\ UNCHANGED loads

\* the error of a post is dropped and the loop goes on
ResumeSetUnreadStatusForMailsIgnoringError(c) ==
    /\ pc[c] = "await_post"
    /\ op[c] = "set_unread_status_for_mails"
    /\ posts[locals[c].awaiting].resp # Pending
    /\ UnreadLoop(c, locals[c].rest, args[c].unread)
    /\ UNCHANGED <<op, args, loads>>

\* the call looks at the answer to the latest request the executor was handed
ResumeSetUnreadStatusForMailsSharedAnswer(c) ==
    /\ pc[c] = "await_post"
    /\ op[c] = "set_unread_status_for_mails"
    /\ LET resp == posts[Len(posts)].resp
       IN  /\ resp # Pending
           /\ IF resp.tag = "Err"
              THEN Return(c, Err(resp.error)) /\ UNCHANGED posts
              ELSE UnreadLoop(c, locals[c].rest, args[c].unread)
    /\ UNCHANGED <<op, args, loads>>

\* the awaited post has completed: `?` returns its error, else the loop goes on
ResumeSetUnreadStatusForMails(c) ==
    /\ pc[c] = "await_post"
    /\ op[c] = "set_unread_status_for_mails"
    /\ LET resp == posts[locals[c].awaiting].resp
       IN  /\ resp # Pending
           /\ IF resp.tag = "Err"
              THEN Return(c, Err(resp.error)) /\ UNCHANGED posts
              ELSE UnreadLoop(c, locals[c].rest, args[c].unread)
    /\ UNCHANGED <<op, args, loads>>

(***************************************************************************)
(* simple_move_mail and trash_mails                                        *)
(***************************************************************************)
\* the destination is left at its default
MoveLoopDefaultDestination(c, rest, folder_type) ==
    IF rest = <<>>
    THEN Return(c, Ok(Unit)) /\ UNCHANGED posts
    ELSE LET nx == ChunksNext(rest, MAX_MAIL_UPDATE_LIMIT)
         IN  Post(c, "SimpleMoveMailService",
                  [format |-> 0, destinationSetType |-> 0, mails |-> nx.chunk], nx.rest)

MoveLoop(c, rest, folder_type) ==
    IF rest = <<>>
    THEN Return(c, Ok(Unit)) /\ UNCHANGED posts
    ELSE LET nx == ChunksNext(rest, MAX_MAIL_UPDATE_LIMIT)
         IN  Post(c, "SimpleMoveMailService",
                  [format |-> 0,
                   destinationSetType |-> MailSetKindAsI64(folder_type),
                   mails |-> nx.chunk], nx.rest)

\* the destination is not checked
SimpleMoveMailEntryUnchecked(c, mails, folder_type) ==
    MoveLoop(c, Dedup(mails), folder_type)

\* the body of simple_move_mail up to its first .await
SimpleMoveMailEntry(c, mails, folder_type) ==
    IF ~Contains(ALLOWED_SIMPLE_MOVE_MAIL_TARGETS, folder_type)
    THEN Return(c, Panic) /\ UNCHANGED posts
    ELSE MoveLoop(c, Dedup(mails), folder_type)

SimpleMoveMail(c, lists) ==
    /\ pc[c] = "idle"
    /\ \E mails \in lists, folder_type \in MailSetKind :
        /\ op' = [op EXCEPT ![c] = "simple_move_mail"]
        /\ args' = [args EXCEPT ![c] = [mails |-> mails, folder_type |-> folder_type]]
        /\ SimpleMoveMailEntry(c, mails, folder_type)
        /\ UNCHANGED loads

TrashMails(c, lists) ==
    /\ pc[c] = "idle"
    /\ \E mails \in lists :
        /\ op' = [op EXCEPT ![c] = "trash_mails"]
        /\ args' = [args EXCEPT ![c] = [mails |-> mails, folder_type |-> "Trash"]]
        /\ SimpleMoveMailEntry(c, mails, "Trash")
        /\ UNCHANGED loads

\* a failed post is posted again
ResumeSimpleMoveMailRetrying(c) ==
    /\ pc[c] = "await_post"
    /\ op[c] \in {"simple_move_mail", "trash_mails"}
    /\ LET resp == posts[locals[c].awaiting].resp
       IN  /\ resp # Pending
           /\ IF resp.tag = "Err"
              THEN Post(c, "SimpleMoveMailService", posts[locals[c].awaiting].body,
                        locals[c].rest)
              ELSE MoveLoop(c, locals[c].rest, args[c].folder_type)
    /\ UNCHANGED <<op, args, loads>>

\* the error of a post is replaced by one of the facade's own
ResumeSimpleMoveMailWrappingError(c) ==
    /\ pc[c] = "await_post"
    /\ op[c] \in {"simple_move_mail", "trash_mails"}
    /\ LET resp == posts[locals[c].awaiting].resp
       IN  /\ resp # Pending
           /\ IF resp.tag = "Err"
              THEN Return(c, Err(ApiCallErrorInternal("move failed"))) /\ UNCHANGED posts
              ELSE MoveLoop(c, locals[c].rest, args[c].folder_type)
    /\ UNCHANGED <<op, args, loads>>

ResumeSimpleMoveMail(c) ==
    /\ pc[c] = "await_post"
    /\ op[c] \in {"simple_move_mail", "trash_mails"}
    /\ LET resp == posts[locals[c].awaiting].resp
       IN  /\ resp # Pending
           /\ IF resp.tag = "Err"
              THEN Return(c, Err(resp.error)) /\ UNCHANGED posts
              ELSE MoveLoop(c, locals[c].rest, args[c].folder_type)
    /\ UNCHANGED <<op, args, loads>>

(***************************************************************************)
(* load_user_mailbox                                                       *)
(***************************************************************************)
\* crypto_entity_client.load(id) or .load_range(..) is called and awaited
Load(c, request, at) ==
    /\ loads' = Append(loads, [call |-> c, request |-> request, resp |-> Pending])
    /\ locals' = [locals EXCEPT ![c] = [awaiting |-> Len(loads) + 1]]
    /\ pc' = [pc EXCEPT ![c] = at]
    /\ UNCHANGED result

\* the first membership, whatever its group type
FindFirstMembership(memberships) ==
    IF memberships = <<>> THEN None ELSE Some(memberships[1])

\* the last membership of group type Mail
FindLastMailMembership(memberships) ==
    LET hits == {i \in 1..Len(memberships) : memberships[i].group_type = "Mail"}
    IN  IF hits = {} THEN None
        ELSE Some(memberships[CHOOSE i \in hits : \A j \in hits : i >= j])

\* memberships.iter().find(|m| m.group_type() == GroupType::Mail)
FindMailMembership(memberships) ==
    LET hits == {i \in 1..Len(memberships) : memberships[i].group_type = "Mail"}
    IN  IF hits = {} THEN None
        ELSE Some(memberships[CHOOSE i \in hits : \A j \in hits : i <= j])

LoadUserMailbox(c) ==
    /\ pc[c] = "idle"
    /\ \E memberships \in Memberships :
        /\ op' = [op EXCEPT ![c] = "load_user_mailbox"]
        /\ args' = [args EXCEPT ![c] = [user |-> [memberships |-> memberships]]]
        /\ LET mail_group_ship == FindMailMembership(memberships)
           IN  IF ~mail_group_ship.some
               THEN /\ Return(c, Err(ApiCallErrorInternal("User does not have mail group")))
                    /\ UNCHANGED loads
               ELSE Load(c, [fn |-> "load", type |-> "MailboxGroupRoot",
                             id |-> mail_group_ship.value.group], "await_group_root")
        /\ UNCHANGED posts

\* the MailBox is loaded by the membership's group id, not by the root's reference
ResumeLoadUserMailboxByGroup(c) ==
    /\ op[c] = "load_user_mailbox"
    /\ pc[c] \in {"await_group_root", "await_mailbox"}
    /\ LET resp == loads[locals[c].awaiting].resp
       IN  /\ resp # Pending
           /\ IF resp.tag = "Err"
              THEN Return(c, Err(resp.error)) /\ UNCHANGED loads
              ELSE IF pc[c] = "await_group_root"
              THEN Load(c, [fn |-> "load", type |-> "MailBox",
                            id |-> loads[locals[c].awaiting].request.id],
                        "await_mailbox")
              ELSE Return(c, Ok(resp.value)) /\ UNCHANGED loads
    /\ UNCHANGED <<op, args, posts>>

ResumeLoadUserMailbox(c) ==
    /\ op[c] = "load_user_mailbox"
    /\ pc[c] \in {"await_group_root", "await_mailbox"}
    /\ LET resp == loads[locals[c].awaiting].resp
       IN  /\ resp # Pending
           /\ IF resp.tag = "Err"
              THEN Return(c, Err(resp.error)) /\ UNCHANGED loads
              ELSE IF pc[c] = "await_group_root"
              THEN Load(c, [fn |-> "load", type |-> "MailBox", id |-> resp.value.mailbox],
                        "await_mailbox")
              ELSE Return(c, Ok(resp.value)) /\ UNCHANGED loads
    /\ UNCHANGED <<op, args, posts>>

(***************************************************************************)
(* load_folders_for_mailbox                                                *)
(***************************************************************************)
\* an absent folder list counts as an empty one
LoadFoldersForMailboxOrEmpty(c) ==
    /\ pc[c] = "idle"
    /\ \E mailbox \in MailBoxes :
        /\ op' = [op EXCEPT ![c] = "load_folders_for_mailbox"]
        /\ args' = [args EXCEPT ![c] = [mailbox |-> mailbox]]
        /\ IF ~mailbox.folders.some
           THEN Return(c, Ok(FolderSystemNew(<<>>))) /\ UNCHANGED loads
           ELSE Load(c, [fn |-> "load_range", type |-> "MailFolder",
                         list_id |-> mailbox.folders.value.folders,
                         start_id |-> MinId, count |-> 100, direction |-> "ASC"],
                     "await_range")
        /\ UNCHANGED posts

LoadFoldersForMailbox(c) ==
    /\ pc[c] = "idle"
    /\ \E mailbox \in MailBoxes :
        /\ op' = [op EXCEPT ![c] = "load_folders_for_mailbox"]
        /\ args' = [args EXCEPT ![c] = [mailbox |-> mailbox]]
        /\ IF ~mailbox.folders.some
           THEN Return(c, Panic) /\ UNCHANGED loads
           ELSE Load(c, [fn |-> "load_range", type |-> "MailFolder",
                         list_id |-> mailbox.folders.value.folders,
                         start_id |-> MinId, count |-> 100, direction |-> "ASC"],
                     "await_range")
        /\ UNCHANGED posts

\* a full page is followed by a load of the next page
ResumeLoadFoldersForMailboxPaging(c) ==
    /\ op[c] = "load_folders_for_mailbox"
    /\ pc[c] = "await_range"
    /\ LET resp == loads[locals[c].awaiting].resp
           request == loads[locals[c].awaiting].request
       IN  /\ resp # Pending
           /\ IF resp.tag = "Err"
              THEN Return(c, Err(resp.error)) /\ UNCHANGED loads
              ELSE IF Len(resp.value) = 100 /\ request.start_id = MinId
              THEN Load(c, [request EXCEPT !.start_id = "id of the last folder"], "await_range")
              ELSE Return(c, Ok(FolderSystemNew(resp.value))) /\ UNCHANGED loads
    /\ UNCHANGED <<op, args, posts>>

ResumeLoadFoldersForMailbox(c) ==
    /\ op[c] = "load_folders_for_mailbox"
    /\ pc[c] = "await_range"
    /\ LET resp == loads[locals[c].awaiting].resp
       IN  /\ resp # Pending
           /\ IF resp.tag = "Err"
              THEN Return(c, Err(resp.error))
              ELSE Return(c, Ok(FolderSystemNew(resp.value)))
    /\ UNCHANGED <<op, args, posts, loads>>

(***************************************************************************)
(* load_mails_in_folder                                                    *)
(***************************************************************************)
\* the range is read the way the folder list is read: oldest first, 100 at once
LoadMailsInFolderAscending(c) ==
    /\ pc[c] = "idle"
    /\ \E folder \in MailFolders :
        /\ op' = [op EXCEPT ![c] = "load_mails_in_folder"]
        /\ args' = [args EXCEPT ![c] = [folder |-> folder]]
        /\ Load(c, [fn |-> "load_range", type |-> "Mail", list_id |-> folder.mails,
                    start_id |-> MinId, count |-> 100, direction |-> "ASC"],
                "await_range")
        /\ UNCHANGED posts

LoadMailsInFolder(c) ==
    /\ pc[c] = "idle"
    /\ \E folder \in MailFolders :
        /\ op' = [op EXCEPT ![c] = "load_mails_in_folder"]
        /\ args' = [args EXCEPT ![c] = [folder |-> folder]]
        /\ Load(c, [fn |-> "load_range", type |-> "Mail", list_id |-> folder.mails,
                    start_id |-> MaxId, count |-> 20, direction |-> "DESC"],
                "await_range")
        /\ UNCHANGED posts

ResumeLoadMailsInFolder(c) ==
    /\ op[c] = "load_mails_in_folder"
    /\ pc[c] = "await_range"
    /\ LET resp == loads[locals[c].awaiting].resp
       IN  /\ resp # Pending
           /\ IF resp.tag = "Err"
              THEN Return(c, Err(resp.error))
              ELSE Return(c, Ok(resp.value))
    /\ UNCHANGED <<op, args, posts, loads>>

(***************************************************************************)
(* load_email_by_id_encrypted                                              *)
(***************************************************************************)
LoadEmailByIdEncrypted(c) ==
    /\ pc[c] = "idle"
    /\ \E id_tuple \in {IdTupleGenerated(n) : n \in 0..1} :
        /\ op' = [op EXCEPT ![c] = "load_email_by_id_encrypted"]
        /\ args' = [args EXCEPT ![c] = [id_tuple |-> id_tuple]]
        /\ Load(c, [fn |-> "load", type |-> "Mail", id |-> id_tuple], "await_mail")
        /\ UNCHANGED posts

ResumeLoadEmailByIdEncrypted(c) ==
    /\ op[c] = "load_email_by_id_encrypted"
    /\ pc[c] = "await_mail"
    /\ LET resp == loads[locals[c].awaiting].resp
       IN  /\ resp # Pending
           /\ Return(c, resp)
    /\ UNCHANGED <<op, args, posts, loads>>

(***************************************************************************)
(* The entity client answers a request it was handed: the entity, or one   *)
(* page of at most `count` entities of the list, or an ApiCallError.       *)
(***************************************************************************)
\* a page of n entities in the order the request asks for
Page(request, n) ==
    IF request.type = "MailFolder"
    THEN [i \in 1..n |-> MailFolder(IF request.direction = "ASC" THEN i ELSE n + 1 - i)]
    ELSE [i \in 1..n |-> Mail(IF request.direction = "ASC" THEN i ELSE n + 1 - i)]

Loaded(request) ==
    IF request.fn = "load_range"
    THEN {Page(request, n) : n \in {0, 1, request.count}}
    ELSE CASE request.type = "MailboxGroupRoot" -> MailboxGroupRoots
           [] request.type = "MailBox" -> {mb \in MailBoxes : mb.id = request.id}
           [] request.type = "Mail" -> {Mail(request.id)}

LoadCompletes ==
    \E i \in 1..Len(loads) :
        /\ loads[i].resp = Pending
        /\ \E r \in {Ok(v) : v \in Loaded(loads[i].request)} \cup {Err(e) : e \in ApiCallErrors} :
               loads' = [loads EXCEPT ![i].resp = r]
        /\ UNCHANGED <<pc, op, args, locals, result, posts>>

(***************************************************************************)
(* The service executor answers a request it was handed: Ok(()) or an      *)
(* ApiCallError.                                                           *)
(***************************************************************************)
PostCompletes ==
    \E i \in 1..Len(posts), r \in {Ok(Unit)} \cup {Err(e) : e \in ApiCallErrors} :
        /\ posts[i].resp = Pending
        /\ posts' = [posts EXCEPT ![i].resp = r]
        /\ UNCHANGED <<pc, op, args, locals, result, loads>>

Next ==
    \E c \in Callers :
        \/ SetUnreadStatusForMails(c, MailLists)
        \/ ResumeSetUnreadStatusForMails(c)
        \/ SimpleMoveMail(c, MailLists)
        \/ TrashMails(c, MailLists)
        \/ ResumeSimpleMoveMail(c)
        \/ PostCompletes
        \/ LoadUserMailbox(c)
        \/ ResumeLoadUserMailbox(c)
        \/ LoadFoldersForMailbox(c)
        \/ ResumeLoadFoldersForMailbox(c)
        \/ LoadMailsInFolder(c)
        \/ ResumeLoadMailsInFolder(c)
        \/ LoadEmailByIdEncrypted(c)
        \/ ResumeLoadEmailByIdEncrypted(c)
        \/ LoadCompletes

Spec == Init /\ [][Next]_vars

(***************************************************************************)
(* Progress: the service executor answers every request it was handed, and *)
(* the runtime polls again a call whose awaited post has been answered.    *)
(***************************************************************************)
SpecLive ==
    /\ Init /\ [][Next]_vars
    /\ WF_vars(PostCompletes)
    /\ \A c \in Callers :
           /\ WF_vars(ResumeSetUnreadStatusForMails(c))
           /\ WF_vars(ResumeSimpleMoveMail(c))

(***************************************************************************)
(* Several logical callers share the one facade: their bulk mutation calls *)
(* interleave at the .await points.                                        *)
(***************************************************************************)
NextConc ==
    \E c \in ConcCallers :
        \/ SetUnreadStatusForMails(c, ConcMailLists)
        \/ ResumeSetUnreadStatusForMails(c)
        \/ TrashMails(c, ConcMailLists)
        \/ ResumeSimpleMoveMail(c)
        \/ PostCompletes

SpecConc == Init /\ [][NextConc]_vars

(***************************************************************************)
(* What the collaborators saw of one call.                                 *)
(***************************************************************************)
BulkOps == {"set_unread_status_for_mails", "simple_move_mail", "trash_mails"}

\* a bulk mutation call whose destination (if it has one) is allowed
IsBulk(c) ==
    /\ op[c] \in BulkOps
    /\ op[c] = "simple_move_mail" => args[c].folder_type = "Trash"

PostsOf(c) == SelectSeq(posts, LAMBDA p : p.call = c)
LoadsOf(c) == SelectSeq(loads, LAMBDA l : l.call = c)

RECURSIVE ConcatMails(_)
ConcatMails(ps) ==
    IF ps = <<>> THEN <<>> ELSE ps[1].body.mails \o ConcatMails(Tail(ps))

\* the keys the call sent, over all its requests, in issue order
SentKeys(c) == ConcatMails(PostsOf(c))

AllPostsOk(c) == \A i \in 1..Len(posts) : posts[i].call = c => posts[i].resp = Ok(Unit)

\* the call is over and the service answered Ok to each of its requests
DoneAllOk(c) == IsBulk(c) /\ pc[c] = "done" /\ AllPostsOk(c)

Ceil(n, d) == (n + d - 1) \div d

Count(v, k) == Cardinality({i \in 1..Len(v) : v[i] = k})

NoDuplicates(v) == \A i, j \in 1..Len(v) : i # j => v[i] # v[j]
DistinctMailLists == {l \in MailLists : NoDuplicates(l)}

\* the positions that start a maximal run of adjacent equal keys
RunHeads(v) == {i \in 1..Len(v) : i = 1 \/ v[i] # v[i - 1]}
\* the positions that repeat their immediate predecessor
Repeats(v) == {i \in 2..Len(v) : v[i] = v[i - 1]}

(***************************************************************************)
(* C1: a duplicate-free list of L keys, every post succeeding: exactly     *)
(* ceil(L/50) requests, each of at most 50 keys, and the requests' key     *)
(* lists, concatenated in issue order, are the input list.                 *)
(***************************************************************************)
C1_SplitInOrder ==
    \A c \in Callers :
        (DoneAllOk(c) /\ args[c].mails \in DistinctMailLists) =>
            /\ Len(PostsOf(c)) = Ceil(Len(args[c].mails), 50)
            /\ \A i \in 1..Len(PostsOf(c)) : Len(PostsOf(c)[i].body.mails) <= 50
            /\ SentKeys(c) = args[c].mails

\* 100 distinct keys went out as keys 1..50 and then keys 51..100
C1_Witness ==
    \E c \in Callers :
        /\ DoneAllOk(c) /\ op[c] = "trash_mails"
        /\ args[c].mails \in DistinctMailLists /\ Len(args[c].mails) = 100
        /\ Len(PostsOf(c)) = 2
        /\ PostsOf(c)[1].body.mails = SubSeq(args[c].mails, 1, 50)
        /\ PostsOf(c)[2].body.mails = SubSeq(args[c].mails, 51, 100)

(***************************************************************************)
(* C2: one key repeated n >= 1 times gives exactly one request, holding    *)
(* exactly that key; and every maximal run of adjacent equal keys          *)
(* contributes exactly one occurrence to the keys sent.                    *)
(***************************************************************************)
C2_AdjacentRunsCollapse ==
    \A c \in Callers :
        LET mails == args[c].mails IN
        /\ (IsBulk(c) /\ pc[c] # "idle" /\ Len(mails) >= 1
                /\ \A i \in 1..Len(mails) : mails[i] = mails[1]) =>
               /\ Len(PostsOf(c)) = 1
               /\ PostsOf(c)[1].body.mails = <<mails[1]>>
        /\ DoneAllOk(c) =>
               \A k \in {mails[i] : i \in 1..Len(mails)} :
                   Count(SentKeys(c), k) = Cardinality({i \in RunHeads(mails) : mails[i] = k})

\* one key, 100 times over, went out once
C2_Witness ==
    \E c \in Callers :
        /\ DoneAllOk(c) /\ op[c] = "set_unread_status_for_mails"
        /\ Len(args[c].mails) = 100
        /\ \A i \in 1..100 : args[c].mails[i] = args[c].mails[1]
        /\ Len(PostsOf(c)) = 1 /\ Len(SentKeys(c)) = 1

(***************************************************************************)
(* C3: deduplication is adjacent-only: a key is dropped only where it      *)
(* equals its immediate predecessor, so equal keys with another key        *)
(* between them are all sent.                                              *)
(***************************************************************************)
C3_AdjacentOnly ==
    \A c \in Callers :
        LET mails == args[c].mails IN
        DoneAllOk(c) =>
            /\ Len(SentKeys(c)) = Len(mails) - Cardinality(Repeats(mails))
            /\ \A i, j \in 1..Len(mails) :
                   (i + 1 < j /\ mails[i] = mails[j] /\ mails[i + 1] # mails[i]) =>
                       Count(SentKeys(c), mails[i]) >= 2

\* [A, B, A] went out as [A, B, A]
C3_Witness ==
    \E c \in Callers :
        /\ DoneAllOk(c)
        /\ Len(args[c].mails) = 3
        /\ args[c].mails[1] = args[c].mails[3] /\ args[c].mails[1] # args[c].mails[2]
        /\ SentKeys(c) = args[c].mails

(***************************************************************************)
(* C4: simple_move_mail with a folder kind outside the allow-list fails    *)
(* before any post: for every mail list, the empty one included, the call  *)
(* has issued no request.                                                  *)
(***************************************************************************)
C4_DisallowedKindFailsBeforePost ==
    \A c \in Callers :
        (op[c] = "simple_move_mail" /\ args[c].folder_type # "Trash") =>
            /\ pc[c] = "done" /\ result[c] = Panic
            /\ PostsOf(c) = <<>>

\* a non-empty list for the Inbox: the call panicked, nothing was posted
C4_Witness ==
    \E c \in Callers :
        /\ op[c] = "simple_move_mail" /\ args[c].folder_type = "Inbox"
        /\ Len(args[c].mails) = 100
        /\ result[c] = Panic /\ posts = <<>>

(***************************************************************************)
(* C5: when the post for a chunk fails, the call issues no request after   *)
(* it (no later chunk, no compensating request) and returns an error; the  *)
(* requests the service answered Ok stay in its log, answered Ok.          *)
(***************************************************************************)
C5_FailureAbortsRest ==
    /\ [](\A c \in Callers : \A i \in 1..Len(posts) :
            (posts[i].call = c /\ posts[i].resp.tag = "Err") =>
                /\ \A j \in 1..Len(posts) : posts[j].call = c => j <= i
                /\ pc[c] \in {"await_post", "done"}
                /\ pc[c] = "done" => result[c].tag = "Err")
    /\ [][\A i \in 1..Len(posts) :
            posts[i].resp.tag = "Ok" => (Len(posts') >= i /\ posts'[i] = posts[i])]_vars

\* three chunks: the first applied, the second failed, the third never sent
C5_Witness ==
    \E c \in Callers :
        /\ IsBulk(c) /\ pc[c] = "done" /\ result[c].tag = "Err"
        /\ Len(args[c].mails) = 101 /\ args[c].mails \in DistinctMailLists
        /\ Len(PostsOf(c)) = 2
        /\ PostsOf(c)[1].resp = Ok(Unit) /\ PostsOf(c)[2].resp.tag = "Err"

(***************************************************************************)
(* C6: a bulk mutation call returns Ok exactly when every chunk was posted *)
(* and every post succeeded; otherwise it returns the error of the first   *)
(* failing post, unchanged, and that post was not tried again.             *)
(***************************************************************************)
FailedPosts(c) == {i \in 1..Len(posts) : posts[i].call = c /\ posts[i].resp.tag = "Err"}

C6_FirstFailureAsIs ==
    \A c \in Callers :
        (IsBulk(c) /\ pc[c] = "done") =>
            IF FailedPosts(c) = {}
            THEN /\ result[c] = Ok(Unit)
                 /\ AllPostsOk(c)
                 /\ Len(SentKeys(c)) = Cardinality(RunHeads(args[c].mails))
            ELSE LET first == CHOOSE i \in FailedPosts(c) : \A j \in FailedPosts(c) : i <= j
                 IN  /\ result[c] = Err(posts[first].resp.error)
                     /\ FailedPosts(c) = {first}
                     /\ \A j \in 1..Len(posts) : posts[j].call = c => j <= first

\* the second of two posts failed with BadRequest, and BadRequest came back
C6_Witness ==
    \E c \in Callers :
        /\ op[c] = "trash_mails" /\ pc[c] = "done"
        /\ Len(PostsOf(c)) = 2
        /\ PostsOf(c)[2].resp.tag = "Err"
        /\ PostsOf(c)[2].resp.error.kind = "ServerResponseError"
        /\ result[c] = PostsOf(c)[2].resp

(***************************************************************************)
(* C7: load_user_mailbox, when no membership of the user has group type    *)
(* Mail, fails with an internal error and issues no entity load.           *)
(***************************************************************************)
C7_NoMailGroupFailsWithoutLoad ==
    \A c \in Callers :
        LET memberships == args[c].user.memberships IN
        (op[c] = "load_user_mailbox"
            /\ \A i \in 1..Len(memberships) : memberships[i].group_type # "Mail") =>
            /\ pc[c] = "done"
            /\ result[c].tag = "Err" /\ result[c].error.kind = "InternalSdkError"
            /\ LoadsOf(c) = <<>>

\* a user with memberships, none of them of type Mail
C7_Witness ==
    \E c \in Callers :
        /\ op[c] = "load_user_mailbox" /\ pc[c] = "done"
        /\ Len(args[c].user.memberships) = 2
        /\ \A i \in 1..2 : args[c].user.memberships[i].group_type # "Mail"
        /\ result[c] = Err(ApiCallErrorInternal("User does not have mail group"))
        /\ loads = <<>>

(***************************************************************************)
(* C8: load_folders_for_mailbox on a mailbox without a folder-list         *)
(* reference fails at once: no ranged load is issued and no FolderSystem   *)
(* is returned.                                                            *)
(***************************************************************************)
C8_AbsentFoldersFailsFast ==
    \A c \in Callers :
        (op[c] = "load_folders_for_mailbox" /\ ~args[c].mailbox.folders.some) =>
            /\ pc[c] = "done"
            /\ result[c] = Panic
            /\ LoadsOf(c) = <<>>

C8_Witness ==
    \E c \in Callers :
        /\ op[c] = "load_folders_for_mailbox" /\ args[c].mailbox.folders = None
        /\ result[c] = Panic /\ loads = <<>>

(***************************************************************************)
(* C9: within one call the request for chunk k+1 is issued only after the  *)
(* post for chunk k has completed with Ok; a call never has two posts      *)
(* outstanding.                                                            *)
(***************************************************************************)
C9_OnePostAtATime ==
    \A c \in ConcCallers :
        /\ Cardinality({i \in 1..Len(posts) : posts[i].call = c /\ posts[i].resp = Pending}) <= 1
        /\ \A i, j \in 1..Len(posts) :
               (i < j /\ posts[i].call = c /\ posts[j].call = c) => posts[i].resp = Ok(Unit)

\* a call is on its third chunk, the other call's post is outstanding too
C9_Witness ==
    \E c, d \in ConcCallers :
        /\ c # d
        /\ Len(PostsOf(c)) = 3 /\ PostsOf(c)[3].resp = Pending
        /\ Len(PostsOf(d)) = 2 /\ PostsOf(d)[2].resp = Pending

(***************************************************************************)
(* C10: two bulk mutation calls running concurrently on the one facade:    *)
(* under every interleaving each call issues the requests it would issue   *)
(* alone (the chunks of its own collapsed list, in order, with its own     *)
(* parameter), as far as its own posts allow; a failure in one call        *)
(* neither aborts nor alters the other.                                    *)
(***************************************************************************)
\* v[lo..hi] with every position dropped that equals the position after it
RECURSIVE CollapseRange(_, _, _)
CollapseRange(v, lo, hi) ==
    IF lo > hi THEN <<>>
    ELSE IF lo = hi
         THEN IF lo < Len(v) /\ v[lo] = v[lo + 1] THEN <<>> ELSE <<v[lo]>>
         ELSE LET mid == (lo + hi) \div 2
              IN  CollapseRange(v, lo, mid) \o CollapseRange(v, mid + 1, hi)

\* a list with every run of adjacent equal keys reduced to one key
Collapse(v) == CollapseRange(v, 1, Len(v))

\* the k-th chunk of v is v[50(k-1)+1 .. 50k], cut at the end of v
ChunksOf(v) ==
    [k \in 1..Ceil(Len(v), 50) |->
        SubSeq(v, 50 * (k - 1) + 1, IF 50 * k < Len(v) THEN 50 * k ELSE Len(v))]

\* the chunks a call is to send for the list l
ExpectedChunks(l) == ChunksOf(Collapse(l))

\* the request a call issues for a chunk when it runs alone
RequestAlone(c, chunk) ==
    IF op[c] = "set_unread_status_for_mails"
    THEN [service |-> "UnreadMailStateService",
          body |-> [format |-> 0, unread |-> args[c].unread, mails |-> chunk]]
    ELSE [service |-> "SimpleMoveMailService",
          body |-> [format |-> 0, destinationSetType |-> 3, mails |-> chunk]]

C10_CallsDoNotInterfere ==
    \A c \in ConcCallers :
        op[c] \in BulkOps =>
            LET expected == ExpectedChunks(args[c].mails)
                mine == PostsOf(c)
                oks == Cardinality({k \in 1..Len(mine) : mine[k].resp = Ok(Unit)})
            IN  /\ Len(mine) <= Len(expected)
                /\ \A k \in 1..Len(mine) :
                       [service |-> mine[k].service, body |-> mine[k].body]
                           = RequestAlone(c, expected[k])
                /\ FailedPosts(c) = {} =>
                       /\ Len(mine) >= oks
                       /\ pc[c] = "done" => (result[c] = Ok(Unit) /\ Len(mine) = Len(expected))
                       /\ pc[c] # "done" => Len(mine) <= oks + 1
                /\ FailedPosts(c) # {} =>
                       /\ mine[Len(mine)].resp.tag = "Err"
                       /\ Len(mine) = oks + 1
                       /\ pc[c] = "done" => result[c] = mine[Len(mine)].resp

\* d failed on its first chunk between two requests of c; c still sent all three
C10_Witness ==
    \E c, d \in ConcCallers :
        /\ c # d
        /\ pc[c] = "done" /\ result[c] = Ok(Unit) /\ Len(PostsOf(c)) = 3
        /\ pc[d] = "done" /\ result[d].tag = "Err"
        /\ Len(PostsOf(d)) = 1 /\ Len(ExpectedChunks(args[d].mails)) = 2
        /\ posts[1].call = c /\ posts[2].call = d /\ posts[3].call = c

(***************************************************************************)
(* C11: deduplication comes before chunking: for every input list, every   *)
(* post succeeding, the requests' key lists concatenated in issue order    *)
(* are the input with each run of adjacent equal keys collapsed to one     *)
(* key; no two consecutive sent keys are equal, across a request boundary  *)
(* either; and there are ceil(D/50) requests, D the collapsed length.      *)
(***************************************************************************)
C11_DedupBeforeChunking ==
    \A c \in Callers :
        DoneAllOk(c) =>
            LET sent == SentKeys(c)
                mine == PostsOf(c)
            IN  /\ sent = Collapse(args[c].mails)
                /\ \A i \in 1..(Len(sent) - 1) : sent[i] # sent[i + 1]
                /\ \A k \in 1..(Len(mine) - 1) :
                       mine[k].body.mails[Len(mine[k].body.mails)] # mine[k + 1].body.mails[1]
                /\ Len(mine) = Ceil(Cardinality(RunHeads(args[c].mails)), 50)

\* 101 keys in runs of 3, the 17th run lying across positions 50 and 51:
\* its key went out once, in the single request of 34 keys
C11_Witness ==
    \E c \in Callers :
        /\ DoneAllOk(c)
        /\ Len(args[c].mails) = 101
        /\ args[c].mails[49] = args[c].mails[51] /\ args[c].mails[48] # args[c].mails[49]
        /\ Len(PostsOf(c)) = 1 /\ Len(SentKeys(c)) = 34
        /\ Count(SentKeys(c), args[c].mails[50]) = 1

(***************************************************************************)
(* C12: with a Mail membership, load_user_mailbox loads the                *)
(* MailboxGroupRoot by the membership's group id and then the MailBox the  *)
(* root refers to; when the first load fails the second is never issued;   *)
(* the error of either load is returned unchanged; on success exactly two  *)
(* loads were issued and the loaded MailBox is returned.                   *)
(***************************************************************************)
MailGroups(memberships) ==
    {memberships[i].group : i \in {j \in 1..Len(memberships) : memberships[j].group_type = "Mail"}}

C12_TwoLoadsInOrder ==
    \A c \in Callers :
        (op[c] = "load_user_mailbox" /\ MailGroups(args[c].user.memberships) # {}) =>
            LET ls == LoadsOf(c) IN
            /\ Len(ls) \in {1, 2}
            /\ ls[1].request.fn = "load" /\ ls[1].request.type = "MailboxGroupRoot"
            /\ ls[1].request.id \in MailGroups(args[c].user.memberships)
            /\ Len(ls) = 2 =>
                   /\ ls[1].resp.tag = "Ok"
                   /\ ls[2].request = [fn |-> "load", type |-> "MailBox",
                                       id |-> ls[1].resp.value.mailbox]
            /\ pc[c] = "done" =>
                   /\ ls[Len(ls)].resp # Pending
                   /\ ls[Len(ls)].resp.tag = "Err" => result[c] = ls[Len(ls)].resp
                   /\ ls[Len(ls)].resp.tag = "Ok" =>
                          /\ Len(ls) = 2
                          /\ result[c] = Ok(ls[2].resp.value)
                          /\ result[c].value \in MailBoxes
                          /\ result[c].value.id = ls[1].resp.value.mailbox

\* the root of g1 referred to mb2, mb2 was loaded and returned
C12_Witness ==
    \E c \in Callers :
        /\ op[c] = "load_user_mailbox" /\ pc[c] = "done"
        /\ Len(loads) = 2
        /\ loads[1].request.id = "g1" /\ loads[1].resp = Ok([mailbox |-> "mb2"])
        /\ loads[2].request.id = "mb2"
        /\ result[c].tag = "Ok" /\ result[c].value.id = "mb2"

(***************************************************************************)
(* C13: every request of a call carries the call's parameter unchanged:    *)
(* each request of set_unread_status_for_mails(mails, unread) carries      *)
(* `unread`, each request of trash_mails carries the Trash destination;    *)
(* no two requests of one call differ in it.                               *)
(***************************************************************************)
C13_ParameterCarried ==
    \A c \in Callers : \A i \in 1..Len(posts) :
        posts[i].call = c =>
            /\ op[c] = "set_unread_status_for_mails" =>
                   /\ posts[i].service = "UnreadMailStateService"
                   /\ posts[i].body.unread = args[c].unread
            /\ op[c] \in {"trash_mails", "simple_move_mail"} =>
                   /\ posts[i].service = "SimpleMoveMailService"
                   /\ posts[i].body.destinationSetType = MailSetKindAsI64("Trash")
            /\ \A j \in 1..Len(posts) :
                   posts[j].call = c =>
                       [posts[j].body EXCEPT !.mails = <<>>] = [posts[i].body EXCEPT !.mails = <<>>]

\* three requests of one trash_mails call, each with the Trash destination
C13_Witness ==
    \E c \in Callers :
        /\ op[c] = "trash_mails"
        /\ Len(PostsOf(c)) = 3
        /\ \A k \in 1..3 : PostsOf(c)[k].body.destinationSetType = MailSetKindAsI64("Trash")

(***************************************************************************)
(* C14: load_folders_for_mailbox with a folder-list reference issues       *)
(* exactly one ranged load (that list, from the minimum id, ascending,     *)
(* 100 entries) and no continuation, a full page of 100 included; the      *)
(* error of the load is returned unchanged, without a FolderSystem.        *)
(***************************************************************************)
C14_OneFolderPage ==
    \A c \in Callers :
        (op[c] = "load_folders_for_mailbox" /\ args[c].mailbox.folders.some) =>
            LET ls == LoadsOf(c) IN
            /\ Len(ls) = 1
            /\ ls[1].request = [fn |-> "load_range", type |-> "MailFolder",
                                list_id |-> args[c].mailbox.folders.value.folders,
                                start_id |-> MinId, count |-> 100, direction |-> "ASC"]
            /\ pc[c] = "done" =>
                   /\ ls[1].resp # Pending
                   /\ ls[1].resp.tag = "Err" => result[c] = ls[1].resp
                   /\ ls[1].resp.tag = "Ok" => result[c] = Ok(FolderSystemNew(ls[1].resp.value))

\* the page came back full, and the call returned it without asking for more
C14_Witness ==
    \E c \in Callers :
        /\ op[c] = "load_folders_for_mailbox" /\ pc[c] = "done"
        /\ Len(loads) = 1 /\ loads[1].resp.tag = "Ok" /\ Len(loads[1].resp.value) = 100
        /\ result[c].tag = "Ok" /\ Len(result[c].value.folders) = 100

(***************************************************************************)
(* C15: load_mails_in_folder issues exactly one ranged load over the       *)
(* folder's mail list (from the maximum id, descending, 20 entries),       *)
(* returns that page as it is (at most 20 mails, newest first) and never   *)
(* issues a second load.                                                   *)
(***************************************************************************)
C15_OneMailPage ==
    \A c \in Callers :
        op[c] = "load_mails_in_folder" =>
            LET ls == LoadsOf(c) IN
            /\ Len(ls) = 1
            /\ ls[1].request = [fn |-> "load_range", type |-> "Mail",
                                list_id |-> args[c].folder.mails,
                                start_id |-> MaxId, count |-> 20, direction |-> "DESC"]
            /\ pc[c] = "done" =>
                   /\ ls[1].resp # Pending
                   /\ result[c] = ls[1].resp
                   /\ result[c].tag = "Ok" =>
                          /\ Len(result[c].value) <= 20
                          /\ \A i \in 1..(Len(result[c].value) - 1) :
                                 result[c].value[i].id > result[c].value[i + 1].id

\* a full page of 20 mails, newest first, was returned after one load
C15_Witness ==
    \E c \in Callers :
        /\ op[c] = "load_mails_in_folder" /\ pc[c] = "done"
        /\ Len(loads) = 1
        /\ result[c].tag = "Ok" /\ Len(result[c].value) = 20
        /\ result[c].value[1].id = 20 /\ result[c].value[20].id = 1

(***************************************************************************)
(* C16: every request of a bulk mutation call holds at least 1 and at most *)
(* 50 keys; an empty list issues no request and the call returns Ok.       *)
(***************************************************************************)
C16_RequestSizes ==
    \A c \in Callers :
        /\ \A i \in 1..Len(posts) :
               posts[i].call = c =>
                   (1 <= Len(posts[i].body.mails) /\ Len(posts[i].body.mails) <= 50)
        /\ (IsBulk(c) /\ args[c].mails = <<>>) =>
               /\ PostsOf(c) = <<>>
               /\ pc[c] = "done" /\ result[c] = Ok(Unit)

\* the empty list: Ok, and the service executor was not called
C16_Witness ==
    \E c \in Callers :
        /\ op[c] = "set_unread_status_for_mails" /\ args[c].mails = <<>>
        /\ result[c] = Ok(Unit) /\ posts = <<>>

(***************************************************************************)
(* C17: chunks are filled greedily: every request of a call but the last   *)
(* one of the whole sequence holds exactly 50 keys.                        *)
(***************************************************************************)
C17_GreedyChunks ==
    \A c \in Callers :
        IsBulk(c) =>
            LET mine == PostsOf(c)
                total == Ceil(Cardinality(RunHeads(args[c].mails)), 50)
            IN  \A k \in 1..Len(mine) : k < total => Len(mine[k].body.mails) = 50

\* 101 keys went out as 50, 50 and 1
C17_Witness ==
    \E c \in Callers :
        /\ IsBulk(c) /\ Len(PostsOf(c)) = 3
        /\ Len(PostsOf(c)[1].body.mails) = 50
        /\ Len(PostsOf(c)[2].body.mails) = 50
        /\ Len(PostsOf(c)[3].body.mails) = 1

(***************************************************************************)
(* C18: provided every post is answered, every bulk mutation call on a     *)
(* list of L keys completes; it issues at most ceil(L/50) posts, and no    *)
(* chunk twice: what it has sent is always an initial part of its          *)
(* collapsed list.                                                         *)
(***************************************************************************)
C18_Terminates ==
    /\ [](\A c \in Callers :
            op[c] \in BulkOps =>
                /\ Len(PostsOf(c)) <= Ceil(Len(args[c].mails), 50)
                /\ SentKeys(c) = SubSeq(Collapse(args[c].mails), 1, Len(SentKeys(c))))
    /\ \A c \in Callers : (op[c] \in BulkOps) ~> (pc[c] = "done")

\* a call went through all three chunks of 101 keys and returned
C18_Witness ==
    \E c \in Callers :
        /\ IsBulk(c) /\ pc[c] = "done" /\ result[c] = Ok(Unit)
        /\ Len(args[c].mails) = 101
        /\ Len(PostsOf(c)) = 3 /\ Len(SentKeys(c)) = 101

(***************************************************************************)
(* C19: when several memberships have group type Mail, load_user_mailbox   *)
(* uses the first of them in membership order: the MailboxGroupRoot is     *)
(* loaded for that membership's group id and for no other.                 *)
(***************************************************************************)
C19_FirstMailMembership ==
    \A c \in Callers :
        (op[c] = "load_user_mailbox" /\ MailGroups(args[c].user.memberships) # {}) =>
            LET memberships == args[c].user.memberships
                roots == SelectSeq(LoadsOf(c), LAMBDA l : l.request.type = "MailboxGroupRoot")
            IN  /\ Len(roots) = 1
                /\ \E i \in 1..Len(memberships) :
                       /\ memberships[i].group_type = "Mail"
                       /\ \A j \in 1..(i - 1) : memberships[j].group_type # "Mail"
                       /\ roots[1].request.id = memberships[i].group

\* Mail memberships of g2 and then g1: the root of g2 was loaded, not that of g1
C19_Witness ==
    \E c \in Callers :
        /\ op[c] = "load_user_mailbox" /\ pc[c] = "done" /\ result[c].tag = "Ok"
        /\ args[c].user.memberships =
               <<[group_type |-> "Mail", group |-> "g2"], [group_type |-> "Mail", group |-> "g1"]>>
        /\ loads[1].request.id = "g2"
        /\ \A i \in 1..Len(loads) : loads[i].request.id # "g1"

====
